---------------------------- MODULE Spec2Model ----------------------------
(***************************************************************************)
(* A model of json-abc-converter (src/main.go): the command line program   *)
(* that decodes a JSON array of tunes and writes them as ABC notation,     *)
(* one file per tune or all tunes in one file.                             *)
(*                                                                         *)
(* A Go string is modelled as what it is: a sequence of bytes (0..255).    *)
(* Text is UTF-8, so a character above U+007F is two or three bytes.       *)
(* Writes to a file that os.Create has opened are taken to succeed: the    *)
(* program discards the results of fmt.Fprintf and of f.Close.             *)
(***************************************************************************)
EXTENDS Integers, Sequences, FiniteSets, TLC

VARIABLES
    pc,           \* the position of main / of the function under check
    inputFile,    \* *inputFile: the value of the -input flag
    fileReadable, \* whether ioutil.ReadFile succeeds on it
    data,         \* the shape of the bytes read from the input file
    tunes,        \* var tunes []Tune, after json.Unmarshal
    singleFile,   \* *singleFile: the -single flag
    dirState,     \* what the path *outputDir names: "dir", "absent", "file"
    fs,           \* the files this run has created: file name -> content
    processed,    \* outputToMultipleFiles: processed
    idx,          \* the number of loop iterations finished (tunes visited)
    exitCode,     \* -1 while running, else the exit status of the process
    createRes,    \* the results of the calls of os.Create so far, in order
    arg,          \* the argument of the pure function under check
    res           \* its result

vars == << pc, inputFile, fileReadable, data, tunes, singleFile, dirState,
           fs, processed, idx, exitCode, createRes, arg, res >>

----------------------------------------------------------------------------
(* Bounds of the model *)

\* the longest input array
MaxTunes == 2
\* the number of mode keywords concatenated in one mode string
MaxKeywords == 2
\* the number of characters that follow the padding of a title
MaxTail == 2

----------------------------------------------------------------------------
(* Characters and string literals *)

AsciiTable ==
  << " ", "!", "\"", "#", "$", "%", "&", "'", "(", ")", "*", "+", ",", "-", ".", "/",
     "0", "1", "2", "3", "4", "5", "6", "7", "8", "9", ":", ";", "<", "=", ">", "?",
     "@", "A", "B", "C", "D", "E", "F", "G", "H", "I", "J", "K", "L", "M", "N", "O",
     "P", "Q", "R", "S", "T", "U", "V", "W", "X", "Y", "Z", "[", "\\", "]", "^", "_",
     "(backtick)", "a", "b", "c", "d", "e", "f", "g", "h", "i", "j", "k", "l", "m", "n", "o",
     "p", "q", "r", "s", "t", "u", "v", "w", "x", "y", "z", "{", "|", "}", "~" >>

\* the byte of a printable ASCII character (the table holds them in the order of
\* their codes from 32 on; the entry of code 96 is a placeholder)
Ord(c) == 31 + (CHOOSE i \in 1..Len(AsciiTable) : AsciiTable[i] = c)

\* a Go string literal of printable ASCII characters, as its bytes
RECURSIVE Str(_)
Str(s) == IF s = << >> THEN << >> ELSE << Ord(Head(s)) >> \o Str(Tail(s))

\* "\n"
NL == 10

\* the UTF-8 encoding of one code point below U+10000
EncodeRune(cp) ==
    IF cp < 128 THEN << cp >>
    ELSE IF cp < 2048 THEN << 192 + (cp \div 64), 128 + (cp % 64) >>
    ELSE << 224 + (cp \div 4096), 128 + ((cp \div 64) % 64), 128 + (cp % 64) >>

\* the UTF-8 encoding of a sequence of code points
RECURSIVE EncodeUTF8(_)
EncodeUTF8(cps) ==
    IF cps = << >> THEN << >>
    ELSE EncodeRune(Head(cps)) \o EncodeUTF8(Tail(cps))

\* the concatenation of a sequence of strings
RECURSIVE Concat(_)
Concat(ss) == IF ss = << >> THEN << >> ELSE Head(ss) \o Concat(Tail(ss))

----------------------------------------------------------------------------
(* package strings, as main.go uses it *)

\* strings.HasSuffix
HasSuffix(s, suffix) ==
    /\ Len(s) >= Len(suffix)
    /\ SubSeq(s, Len(s) - Len(suffix) + 1, Len(s)) = suffix

\* strings.TrimSuffix
TrimSuffix(s, suffix) ==
    IF HasSuffix(s, suffix) THEN SubSeq(s, 1, Len(s) - Len(suffix)) ELSE s

\* whether substr occurs in s at the 0-based byte offset i
OccursAt(s, substr, i) ==
    /\ i + Len(substr) <= Len(s)
    /\ SubSeq(s, i + 1, i + Len(substr)) = substr

\* strings.Index: the offset of the first occurrence, -1 when there is none
Index(s, substr) ==
    LET at == { i \in 0..Len(s) : OccursAt(s, substr, i) }
    IN  IF at = {} THEN -1 ELSE CHOOSE i \in at : \A j \in at : i <= j

\* strings.Contains
Contains(s, substr) == Index(s, substr) >= 0

\* strings.Replace for a non-empty old: the first n occurrences, all when n < 0
RECURSIVE Replace(_, _, _, _)
Replace(s, old, new, n) ==
    LET i == Index(s, old)
    IN  IF n = 0 \/ i < 0 THEN s
        ELSE SubSeq(s, 1, i) \o new
             \o Replace(SubSeq(s, i + Len(old) + 1, Len(s)), old, new, n - 1)

\* strings.ReplaceAll
ReplaceAll(s, old, new) == Replace(s, old, new, -1)

\* strings.ToLower on ASCII text
ToLower(s) ==
    [ i \in 1..Len(s) |-> IF s[i] >= 65 /\ s[i] <= 90 THEN s[i] + 32 ELSE s[i] ]

----------------------------------------------------------------------------
(* modeToBetter *)

MAJOR == Str(<<"m", "a", "j", "o", "r">>)
MINOR == Str(<<"m", "i", "n", "o", "r">>)
MIXOLYDIAN == Str(<<"m", "i", "x", "o", "l", "y", "d", "i", "a", "n">>)
DORIAN == Str(<<"d", "o", "r", "i", "a", "n">>)
PHRYGIAN == Str(<<"p", "h", "r", "y", "g", "i", "a", "n">>)
LYDIAN == Str(<<"l", "y", "d", "i", "a", "n">>)
LOCRIAN == Str(<<"l", "o", "c", "r", "i", "a", "n">>)
S_M == Str(<<"m">>)
S_MIX == Str(<<" ", "m", "i", "x">>)
S_DOR == Str(<<" ", "d", "o", "r">>)
S_PHR == Str(<<" ", "p", "h", "r">>)
S_LYD == Str(<<" ", "l", "y", "d">>)
S_LOC == Str(<<" ", "l", "o", "c">>)

\* the chain with the lydian test moved in front of the mixolydian test
modeToBetterLydianFirst(mode) ==
    LET m == ToLower(mode)
    IN  IF HasSuffix(m, MAJOR) THEN TrimSuffix(m, MAJOR)
        ELSE IF HasSuffix(m, MINOR) THEN TrimSuffix(m, MINOR) \o S_M
        ELSE IF Contains(m, LYDIAN) THEN Replace(m, LYDIAN, S_LYD, 1)
        ELSE IF Contains(m, MIXOLYDIAN) THEN Replace(m, MIXOLYDIAN, S_MIX, 1)
        ELSE IF Contains(m, DORIAN) THEN Replace(m, DORIAN, S_DOR, 1)
        ELSE IF Contains(m, PHRYGIAN) THEN Replace(m, PHRYGIAN, S_PHR, 1)
        ELSE IF Contains(m, LOCRIAN) THEN Replace(m, LOCRIAN, S_LOC, 1)
        ELSE m

modeToBetter(mode) ==
    LET m == ToLower(mode)
    IN  IF HasSuffix(m, MAJOR) THEN TrimSuffix(m, MAJOR)
        ELSE IF HasSuffix(m, MINOR) THEN TrimSuffix(m, MINOR) \o S_M
        ELSE IF Contains(m, MIXOLYDIAN) THEN Replace(m, MIXOLYDIAN, S_MIX, 1)
        ELSE IF Contains(m, DORIAN) THEN Replace(m, DORIAN, S_DOR, 1)
        ELSE IF Contains(m, PHRYGIAN) THEN Replace(m, PHRYGIAN, S_PHR, 1)
        ELSE IF Contains(m, LYDIAN) THEN Replace(m, LYDIAN, S_LYD, 1)
        ELSE IF Contains(m, LOCRIAN) THEN Replace(m, LOCRIAN, S_LOC, 1)
        ELSE m

----------------------------------------------------------------------------
(* sanitizeFileName *)

UNDERSCORE == Str(<<"_">>)

\* the list without its last entry
illegalCharsNoPipe ==
    << Str(<<"/">>), Str(<<"\\">>), Str(<<":">>), Str(<<"*">>), Str(<<"?">>),
       Str(<<"\"">>), Str(<<"<">>), Str(<<">">>) >>

illegalChars ==
    << Str(<<"/">>), Str(<<"\\">>), Str(<<":">>), Str(<<"*">>), Str(<<"?">>),
       Str(<<"\"">>), Str(<<"<">>), Str(<<">">>), Str(<<"|">>) >>

\* the loop over illegalChars, from its k-th entry on
RECURSIVE ReplaceIllegalFrom(_, _)
ReplaceIllegalFrom(result, k) ==
    IF k > Len(illegalChars) THEN result
    ELSE ReplaceIllegalFrom(ReplaceAll(result, illegalChars[k], UNDERSCORE), k + 1)

\* result after the loop
ReplaceIllegal(name) == ReplaceIllegalFrom(name, 1)

\* the length a file name is cut to
MaxNameLen == 50

\* the cut: result[:50] when len(result) > 50, len counting bytes
Shorten(result) ==
    IF Len(result) > MaxNameLen THEN SubSeq(result, 1, MaxNameLen) ELSE result

sanitizeFileName(name) == Shorten(ReplaceIllegal(name))

----------------------------------------------------------------------------
(* Rendering one tune *)

S_X == Str(<<"X", ":">>)
S_T == Str(<<"T", ":">>)
S_R == Str(<<"R", ":">>)
S_MTR == Str(<<"M", ":">>)
S_K == Str(<<"K", ":">>)
S_Z == Str(<<"Z", ":">>)
S_H == Str(<<"H", ":", "A", "d", "d", "e", "d", " ">>)
S_EXT == Str(<<".", "a", "b", "c">>)

\* fmt.Fprintf(f, "<prefix>%s\n", s): the bytes it writes
Fprintf(prefix, s) == prefix \o s \o << NL >>

\* fmt.Fprintln(f, s): the bytes it writes
Fprintln(s) == s \o << NL >>

\* the header fields with H: written before Z:
HeaderMultiHBeforeZ(tune) ==
    Fprintf(S_X, tune.SettingID)
    \o Fprintf(S_T, tune.Name)
    \o Fprintf(S_R, tune.Type)
    \o Fprintf(S_MTR, tune.Meter)
    \o Fprintf(S_K, modeToBetter(tune.Mode))
    \o (IF tune.Date # << >> THEN Fprintf(S_H, tune.Date) ELSE << >>)
    \o (IF tune.Username # << >> THEN Fprintf(S_Z, tune.Username) ELSE << >>)

\* outputToMultipleFiles: the header fields of one tune
HeaderMulti(tune) ==
    Fprintf(S_X, tune.SettingID)
    \o Fprintf(S_T, tune.Name)
    \o Fprintf(S_R, tune.Type)
    \o Fprintf(S_MTR, tune.Meter)
    \o Fprintf(S_K, modeToBetter(tune.Mode))
    \o (IF tune.Username # << >> THEN Fprintf(S_Z, tune.Username) ELSE << >>)
    \o (IF tune.Date # << >> THEN Fprintf(S_H, tune.Date) ELSE << >>)

\* outputToMultipleFiles: everything written to the file of one tune
WriteTuneMulti(tune) == HeaderMulti(tune) \o Fprintln(tune.ABC)

\* outputToSingleFile: the header fields of one tune
HeaderSingle(tune) ==
    Fprintf(S_X, tune.SettingID)
    \o Fprintf(S_T, tune.Name)
    \o Fprintf(S_R, tune.Type)
    \o Fprintf(S_MTR, tune.Meter)
    \o Fprintf(S_K, modeToBetter(tune.Mode))
    \o (IF tune.Username # << >> THEN Fprintf(S_Z, tune.Username) ELSE << >>)
    \o (IF tune.Date # << >> THEN Fprintf(S_H, tune.Date) ELSE << >>)

\* one iteration without the blank line after the tune
WriteTuneSingleNoBlank(tune) == HeaderSingle(tune) \o Fprintln(tune.ABC)

\* outputToSingleFile: everything one iteration writes
WriteTuneSingle(tune) ==
    HeaderSingle(tune) \o Fprintln(tune.ABC) \o Fprintln(<< >>)

\* the file name built from the title as it is
fileNameRawTitle(tune) == tune.SettingID \o UNDERSCORE \o tune.Name \o S_EXT

\* fmt.Sprintf("%s_%s.abc", tune.SettingID, safeName); outputPath is this name
\* under outputDir
fileName(tune) ==
    tune.SettingID \o UNDERSCORE \o sanitizeFileName(tune.Name) \o S_EXT

\* -outfile, by default; outputPath is this name under outputDir
singleFilePath ==
    Str(<<"a", "l", "l", "_", "t", "u", "n", "e", "s", ".", "a", "b", "c">>)

----------------------------------------------------------------------------
(* The file system *)

\* a file opened without truncating it
CreateKeep(fsys, path) ==
    [ p \in DOMAIN fsys \cup { path } |->
        IF p \in DOMAIN fsys THEN fsys[p] ELSE << >> ]

\* os.Create, when it succeeds: the file exists and is empty
Create(fsys, path) ==
    [ p \in DOMAIN fsys \cup { path } |-> IF p = path THEN << >> ELSE fsys[p] ]

\* writing to an open file appends at its end
Write(fsys, path, bytes) == [ fsys EXCEPT ![path] = @ \o bytes ]

\* what os.Create can return for a file under outputDir: it fails when
\* outputDir is no directory, and may fail when it is one
CreateOutcomes == IF dirState = "dir" THEN { TRUE, FALSE } ELSE { FALSE }

\* os.IsNotExist of the error of os.Stat(*outputDir): a path that names a
\* regular file exists
StatIsNotExist == dirState = "absent"

----------------------------------------------------------------------------
(* The input *)

InputPath == Str(<<"t", ".", "j", "s", "o", "n">>)

\* the fields of a tune besides its identifiers and its title
TuneShapes ==
    { [ Type |-> << >>, Meter |-> << >>, Mode |-> << >>, ABC |-> << >>,
        Date |-> << >>, Username |-> << >> ],
      [ Type |-> Str(<<"j", "i", "g">>), Meter |-> Str(<<"6", "/", "8">>),
        Mode |-> Str(<<"G">>) \o MAJOR, ABC |-> Str(<<"a", "b">>) \o << NL >>,
        Date |-> << >>, Username |-> Str(<<"u">>) ],
      [ Type |-> << >>, Meter |-> Str(<<"4", "/", "4">>),
        Mode |-> Str(<<"D">>) \o MIXOLYDIAN, ABC |-> Str(<<"a">>) \o << NL >> \o Str(<<"b">>),
        Date |-> Str(<<"d">>), Username |-> << >> ],
      [ Type |-> Str(<<"r", "e", "e", "l">>), Meter |-> Str(<<"4", "/", "4">>),
        Mode |-> Str(<<"A", "d", "o", "r">>), ABC |-> Str(<<"a", "b">>),
        Date |-> Str(<<"d">>), Username |-> Str(<<"u">>) ] }

SettingIDs == { Str(<<"1">>), Str(<<"2">>) }
Titles == { Str(<<"A", "/">>), Str(<<"A", ":">>) }

\* type Tune
Tunes ==
    { [ TuneID |-> Str(<<"7">>), SettingID |-> sid, Name |-> name,
        Type |-> sh.Type, Meter |-> sh.Meter, Mode |-> sh.Mode, ABC |-> sh.ABC,
        Date |-> sh.Date, Username |-> sh.Username ] :
        sid \in SettingIDs, name \in Titles, sh \in TuneShapes }

\* the sequences of at most n elements of S
RECURSIVE SeqsUpTo(_, _)
SeqsUpTo(S, n) ==
    IF n = 0 THEN { << >> }
    ELSE LET shorter == SeqsUpTo(S, n - 1)
         IN  shorter \cup { Append(q, x) : q \in shorter, x \in S }

\* the content of the input file: a JSON array of tune objects, the value
\* null, an object, text that is no JSON, or an array of objects in which
\* a field holds a number
DataInputs ==
    { [ shape |-> sh, elems |-> es ] :
        sh \in { "array", "wrongtype" }, es \in SeqsUpTo(Tunes, MaxTunes) }
    \cup { [ shape |-> sh, elems |-> << >> ] : sh \in { "null", "object", "syntax" } }

\* json.Unmarshal that reports no type error
UnmarshalLenient(d) ==
    [ err |-> d.shape \in { "object", "syntax" }, tunes |-> d.elems ]

\* json.Unmarshal(data, &tunes): null leaves the slice nil; a field of the
\* wrong type is skipped, the rest is decoded and the error is returned
Unmarshal(d) ==
    [ err |-> d.shape \in { "object", "syntax", "wrongtype" }, tunes |-> d.elems ]

----------------------------------------------------------------------------
(* main *)

Init ==
    /\ pc = "start"
    /\ \/ inputFile = << >> /\ fileReadable = FALSE
          /\ data = [ shape |-> "none", elems |-> << >> ]
       \/ inputFile = InputPath /\ fileReadable = FALSE
          /\ data = [ shape |-> "none", elems |-> << >> ]
       \/ inputFile = InputPath /\ fileReadable = TRUE /\ data \in DataInputs
    /\ tunes = << >>
    /\ singleFile \in BOOLEAN
    /\ dirState \in { "dir", "absent", "file" }
    /\ fs = << >>
    /\ processed = 0
    /\ idx = 0
    /\ exitCode = -1
    /\ createRes = << >>
    /\ arg = << >>
    /\ res = << >>

\* os.Exit(1)
Exit1(at) ==
    /\ pc' = at
    /\ exitCode' = 1

\* if *inputFile == "" { ... os.Exit(1) }
CheckInput ==
    /\ pc = "start"
    /\ IF inputFile = << >> THEN Exit1("fail_usage")
       ELSE pc' = "read" /\ UNCHANGED exitCode
    /\ UNCHANGED << inputFile, fileReadable, data, tunes, singleFile, dirState,
                    fs, processed, idx, createRes, arg, res >>

\* data, err := ioutil.ReadFile(*inputFile)
ReadFile ==
    /\ pc = "read"
    /\ IF ~fileReadable THEN Exit1("fail_read")
       ELSE pc' = "parse" /\ UNCHANGED exitCode
    /\ UNCHANGED << inputFile, fileReadable, data, tunes, singleFile, dirState,
                    fs, processed, idx, createRes, arg, res >>

\* err = json.Unmarshal(data, &tunes)
Parse ==
    /\ pc = "parse"
    /\ LET r == Unmarshal(data)
       IN  /\ tunes' = r.tunes
           /\ IF r.err THEN Exit1("fail_parse")
              ELSE pc' = "stat" /\ UNCHANGED exitCode
    /\ UNCHANGED << inputFile, fileReadable, data, singleFile, dirState,
                    fs, processed, idx, createRes, arg, res >>

\* the output directory is made when os.Stat says it does not exist; then
\* main calls outputToSingleFile or outputToMultipleFiles
EnsureDir ==
    /\ pc = "stat"
    /\ IF StatIsNotExist
       THEN \E ok \in BOOLEAN :
               IF ok
               THEN /\ dirState' = "dir"
                    /\ pc' = IF singleFile THEN "single_create" ELSE "multi_loop"
                    /\ UNCHANGED exitCode
               ELSE /\ Exit1("fail_mkdir")
                    /\ UNCHANGED dirState
       ELSE /\ pc' = IF singleFile THEN "single_create" ELSE "multi_loop"
            /\ UNCHANGED << dirState, exitCode >>
    /\ UNCHANGED << inputFile, fileReadable, data, tunes, singleFile,
                    fs, processed, idx, createRes, arg, res >>

\* outputToSingleFile: f, err := os.Create(outputPath)
SingleCreate ==
    /\ pc = "single_create"
    /\ \E ok \in CreateOutcomes :
          /\ createRes' = Append(createRes, ok)
          /\ IF ok
             THEN /\ fs' = Create(fs, singleFilePath)
                  /\ pc' = "single_loop"
                  /\ UNCHANGED exitCode
             ELSE /\ Exit1("fail_create")
                  /\ UNCHANGED fs
    /\ UNCHANGED << inputFile, fileReadable, data, tunes, singleFile, dirState,
                    processed, idx, arg, res >>

\* outputToSingleFile: one iteration of the loop over tunes
SingleIter ==
    /\ pc = "single_loop"
    /\ idx < Len(tunes)
    /\ fs' = Write(fs, singleFilePath, WriteTuneSingle(tunes[idx + 1]))
    /\ idx' = idx + 1
    /\ UNCHANGED << pc, inputFile, fileReadable, data, tunes, singleFile,
                    dirState, processed, exitCode, createRes, arg, res >>

\* outputToSingleFile returns after the loop, and main with it
SingleDone ==
    /\ pc = "single_loop"
    /\ idx = Len(tunes)
    /\ pc' = "done"
    /\ exitCode' = 0
    /\ UNCHANGED << inputFile, fileReadable, data, tunes, singleFile, dirState,
                    fs, processed, idx, createRes, arg, res >>

\* an iteration that ends the run when the file cannot be created
MultiIterAbort ==
    /\ pc = "multi_loop"
    /\ idx < Len(tunes)
    /\ \E ok \in CreateOutcomes :
          LET tune == tunes[idx + 1]
              outputPath == fileName(tune)
          IN  /\ createRes' = Append(createRes, ok)
              /\ idx' = idx + 1
              /\ IF ok
                 THEN /\ fs' = Write(Create(fs, outputPath), outputPath,
                                     WriteTuneMulti(tune))
                      /\ processed' = processed + 1
                      /\ UNCHANGED << pc, exitCode >>
                 ELSE /\ Exit1("fail_create")
                      /\ UNCHANGED << fs, processed >>
    /\ UNCHANGED << inputFile, fileReadable, data, tunes, singleFile,
                    dirState, arg, res >>

\* outputToMultipleFiles: one iteration of the loop over tunes
MultiIter ==
    /\ pc = "multi_loop"
    /\ idx < Len(tunes)
    /\ \E ok \in CreateOutcomes :
          LET tune == tunes[idx + 1]
              outputPath == fileName(tune)
          IN  /\ createRes' = Append(createRes, ok)
              /\ idx' = idx + 1
              /\ IF ok
                 THEN /\ fs' = Write(Create(fs, outputPath), outputPath,
                                     WriteTuneMulti(tune))
                      /\ processed' = processed + 1
                 ELSE UNCHANGED << fs, processed >>
    /\ UNCHANGED << pc, inputFile, fileReadable, data, tunes, singleFile,
                    dirState, exitCode, arg, res >>

\* outputToMultipleFiles returns after the loop, and main with it
MultiDone ==
    /\ pc = "multi_loop"
    /\ idx = Len(tunes)
    /\ pc' = "done"
    /\ exitCode' = 0
    /\ UNCHANGED << inputFile, fileReadable, data, tunes, singleFile, dirState,
                    fs, processed, idx, createRes, arg, res >>

Next ==
    \/ CheckInput
    \/ ReadFile
    \/ Parse
    \/ EnsureDir
    \/ SingleCreate
    \/ SingleIter
    \/ SingleDone
    \/ MultiIter
    \/ MultiDone

Spec == Init /\ [][Next]_vars

----------------------------------------------------------------------------
(* The pure functions, each applied to an input drawn from a bounded set *)

\* the values the variables of main hold while a pure function is checked
MainUnused ==
    /\ inputFile = << >> /\ fileReadable = FALSE
    /\ data = [ shape |-> "none", elems |-> << >> ]
    /\ tunes = << >> /\ singleFile = FALSE /\ dirState = "absent"
    /\ fs = << >> /\ processed = 0 /\ idx = 0 /\ exitCode = -1
    /\ createRes = << >>

mainVars == << inputFile, fileReadable, data, tunes, singleFile, dirState,
               fs, processed, idx, exitCode, createRes >>

\* mode strings: a tonic followed by at most MaxKeywords words
ModeTonics == { << >>, Str(<<"G">>), Str(<<"A">>), Str(<<"D">>) }
ModeWords ==
    { MAJOR, MINOR, MIXOLYDIAN, DORIAN, PHRYGIAN, LYDIAN, LOCRIAN,
      Str(<<"M", "i", "n", "o", "r">>), Str(<<"x">>) }
ModeInputs ==
    { t \o Concat(ws) : t \in ModeTonics, ws \in SeqsUpTo(ModeWords, MaxKeywords) }

ModeInit ==
    /\ MainUnused
    /\ pc = "call"
    /\ arg \in ModeInputs
    /\ res = << >>

\* K:%s of modeToBetter(tune.Mode)
ModeCall ==
    /\ pc = "call"
    /\ res' = modeToBetter(arg)
    /\ pc' = "ret"
    /\ UNCHANGED << arg, mainVars >>

SpecMode == ModeInit /\ [][ModeCall]_vars

\* titles: a run of the letter a, then at most MaxTail characters, among them
\* the nine characters the sanitizer replaces, a two-byte and a three-byte one
TitleChars ==
    { Ord(c) : c \in { "/", "\\", ":", "*", "?", "\"", "<", ">", "|", "a" } }
    \cup { 233, 8364 }
TitlePads == { 0 } \cup ((MaxNameLen - 2) .. MaxNameLen)
SampleTitle ==
    Str(<<"T", "u", "n", "e", ":", " ", "T", "h", "e", "/", "B", "e", "s", "t", "?">>)
TitleInputs ==
    { [ i \in 1..k |-> 97 ] \o EncodeUTF8(cps) :
        k \in TitlePads, cps \in SeqsUpTo(TitleChars, MaxTail) }
    \cup { SampleTitle }

SanInit ==
    /\ MainUnused
    /\ pc = "call"
    /\ arg \in TitleInputs
    /\ res = << >>

\* safeName := sanitizeFileName(tune.Name)
SanCall ==
    /\ pc = "call"
    /\ res' = sanitizeFileName(arg)
    /\ pc' = "ret"
    /\ UNCHANGED << arg, mainVars >>

SpecSan == SanInit /\ [][SanCall]_vars

----------------------------------------------------------------------------
(* C1: the mode normalizer *)

UpperLetters ==
    Str(<<"A", "B", "C", "D", "E", "F", "G", "H", "I", "J", "K", "L", "M",
          "N", "O", "P", "Q", "R", "S", "T", "U", "V", "W", "X", "Y", "Z">>)
LowerLetters ==
    Str(<<"a", "b", "c", "d", "e", "f", "g", "h", "i", "j", "k", "l", "m",
          "n", "o", "p", "q", "r", "s", "t", "u", "v", "w", "x", "y", "z">>)

Lowercased(s) ==
    [ i \in 1..Len(s) |->
        IF \E k \in 1..26 : UpperLetters[k] = s[i]
        THEN LowerLetters[CHOOSE k \in 1..26 : UpperLetters[k] = s[i]]
        ELSE s[i] ]

\* the rules of the normalizer as an ordered list
ModeRules ==
    << [ kind |-> "suffix",   key |-> MAJOR,      repl |-> << >> ],
       [ kind |-> "suffix",   key |-> MINOR,      repl |-> S_M ],
       [ kind |-> "contains", key |-> MIXOLYDIAN, repl |-> S_MIX ],
       [ kind |-> "contains", key |-> DORIAN,     repl |-> S_DOR ],
       [ kind |-> "contains", key |-> PHRYGIAN,   repl |-> S_PHR ],
       [ kind |-> "contains", key |-> LYDIAN,     repl |-> S_LYD ],
       [ kind |-> "contains", key |-> LOCRIAN,    repl |-> S_LOC ] >>

\* the offsets at which key lies in m
Offsets(m, key) ==
    { k \in 0..(Len(m) - Len(key)) : \A j \in 1..Len(key) : m[k + j] = key[j] }

RuleMatches(r, m) ==
    IF r.kind = "suffix" THEN (Len(m) - Len(r.key)) \in Offsets(m, r.key)
    ELSE Offsets(m, r.key) # {}

\* m with the occurrence of r.key at offset k replaced by r.repl
RuleAt(r, m, k) ==
    SubSeq(m, 1, k) \o r.repl \o SubSeq(m, k + Len(r.key) + 1, Len(m))

RuleApply(r, m) ==
    IF r.kind = "suffix" THEN RuleAt(r, m, Len(m) - Len(r.key))
    ELSE RuleAt(r, m, CHOOSE k \in Offsets(m, r.key) :
                          \A j \in Offsets(m, r.key) : k <= j)

\* the first rule that matches, applied once; the lowercased input when none does
NormalizeByRules(mode) ==
    LET m == Lowercased(mode)
        hits == { i \in 1..Len(ModeRules) : RuleMatches(ModeRules[i], m) }
    IN  IF hits = {} THEN m
        ELSE RuleApply(ModeRules[CHOOSE i \in hits : \A j \in hits : i <= j], m)

----------------------------------------------------------------------------
(* C6, C7: the filename sanitizer *)

IllegalBytes == { Ord(c) : c \in { "/", "\\", ":", "*", "?", "\"", "<", ">", "|" } }

Substituted(b) == IF b \in IllegalBytes THEN Ord("_") ELSE b

\* what the replacement does to a title, byte by byte
ReplacedByteWise ==
    /\ LET replaced == ReplaceIllegal(arg)
       IN  /\ Len(replaced) = Len(arg)
           /\ \A i \in 1..Len(arg) : replaced[i] = Substituted(arg[i])
    /\ Len(res) <= Len(arg)
    /\ \A i \in 1..Len(res) : res[i] = Substituted(arg[i]) /\ res[i] \notin IllegalBytes

\* C6 as stated: the sanitizer replaces each of / \ : * ? " < > | by _ and
\* leaves every other character as it is, so that its result holds none of the
\* nine; "Tune: The/Best?" becomes "Tune__The_Best_".
C6_AsStated ==
    pc = "ret" =>
        /\ ReplacedByteWise
        /\ arg = SampleTitle =>
             res = Str(<<"T", "u", "n", "e", "_", "_", "T", "h", "e", "_",
                         "B", "e", "s", "t", "_">>)

\* C6 amended: the sanitizer replaces each of / \ : * ? " < > | by _ and leaves
\* every other character, the space among them, as it is, so that its result
\* holds none of the nine; "Tune: The/Best?" becomes "Tune_ The_Best_".
C6_ReplacesIllegal ==
    pc = "ret" =>
        /\ ReplacedByteWise
        /\ arg = SampleTitle =>
             res = Str(<<"T", "u", "n", "e", "_", " ", "T", "h", "e", "_",
                         "B", "e", "s", "t", "_">>)

\* a title holding | and a multi-byte character has been sanitized
C6_Witness ==
    /\ pc = "ret"
    /\ \E i \in 1..Len(arg) : arg[i] = Ord("|") /\ res[i] = Ord("_")
    /\ \E i \in 1..Len(arg) : arg[i] > 127 /\ res[i] = arg[i]

IsContinuation(b) == b >= 128 /\ b < 192

\* the number of bytes of the character a lead byte starts, 0 for no lead byte
CharWidth(b) ==
    IF b < 128 THEN 1
    ELSE IF b >= 192 /\ b < 224 THEN 2
    ELSE IF b >= 224 /\ b < 240 THEN 3
    ELSE IF b >= 240 /\ b < 248 THEN 4
    ELSE 0

\* whether s is a sequence of whole characters
RECURSIVE WholeChars(_)
WholeChars(s) ==
    \/ s = << >>
    \/ LET n == CharWidth(Head(s))
       IN  /\ n > 0
           /\ Len(s) >= n
           /\ \A k \in 2..n : IsContinuation(s[k])
           /\ WholeChars(SubSeq(s, n + 1, Len(s)))

\* the number of characters of s, a character cut short counted as one
CharCount(s) == Cardinality({ i \in 1..Len(s) : ~IsContinuation(s[i]) })

\* C7: the sanitized name is at most 50 characters long, a title of more than
\* 50 characters is cut to 50 characters (or fewer, the cut moved back to a
\* character boundary), a title of 50 characters or fewer is not shortened,
\* and the result never ends in a split multi-byte character.
C7_CutOnCharBoundary ==
    pc = "ret" =>
        /\ CharCount(res) <= MaxNameLen
        /\ CharCount(arg) <= MaxNameLen => Len(res) = Len(arg)
        /\ CharCount(arg) > MaxNameLen => Len(res) < Len(arg)
        /\ WholeChars(res)

----------------------------------------------------------------------------
(* C2, C3: the rendered block *)

\* s cut at every "\n": at least one piece, the last one what follows the
\* last "\n"
RECURSIVE SplitNL(_)
SplitNL(s) ==
    LET at == { i \in 1..Len(s) : s[i] = NL }
    IN  IF at = {} THEN << s >>
        ELSE LET i == CHOOSE k \in at : \A j \in at : k <= j
             IN  << SubSeq(s, 1, i - 1) >> \o SplitNL(SubSeq(s, i + 1, Len(s)))

\* whether every line of a file's content is ended by "\n"
Terminated(content) == content = << >> \/ content[Len(content)] = NL

\* the lines of such a content
Lines(content) ==
    LET pieces == SplitNL(content) IN SubSeq(pieces, 1, Len(pieces) - 1)

\* the block of a tune, line by line
ExpectedBlock(tune) ==
    << S_X \o tune.SettingID,
       S_T \o tune.Name,
       S_R \o tune.Type,
       S_MTR \o tune.Meter,
       S_K \o NormalizeByRules(tune.Mode) >>
    \o (IF tune.Username # << >> THEN << S_Z \o tune.Username >> ELSE << >>)
    \o (IF tune.Date # << >> THEN << S_H \o tune.Date >> ELSE << >>)
    \o SplitNL(tune.ABC)

\* the last n elements of a sequence
LastN(q, n) == SubSeq(q, Len(q) - n + 1, Len(q))

\* C2: in both modes the block written for a tune is the lines X:, T:, R:, M:,
\* K: (the normalized mode), then Z: exactly when the username is not empty,
\* then H:Added exactly when the date is not empty, then the abc body as it
\* is; the order is fixed and an empty field still gives its header line.
C2_BlockLayout ==
    /\ (~singleFile /\ pc \in { "multi_loop", "done" } /\ idx > 0 /\ createRes[idx]) =>
          LET content == fs[fileName(tunes[idx])]
          IN  /\ Terminated(content)
              /\ Lines(content) = ExpectedBlock(tunes[idx])
    /\ (singleFile /\ pc \in { "single_loop", "done" } /\ idx > 0) =>
          LET content == fs[singleFilePath]
              block == ExpectedBlock(tunes[idx])
              lines == Lines(content)
          IN  /\ Terminated(content)
              /\ Len(lines) > Len(block)
              /\ LastN(lines, Len(block) + 1) = block \o << << >> >>

\* a tune with a username, a date and an empty type has been written to its
\* own file
C2_Witness ==
    /\ ~singleFile /\ pc = "multi_loop" /\ idx > 0 /\ createRes[idx]
    /\ tunes[idx].Username # << >>
    /\ tunes[idx].Date # << >>
    /\ \E j \in 1..idx : tunes[j].Type = << >> /\ tunes[j].Username = << >>

\* the blocks of the first n tunes, an empty line after each
RECURSIVE BlocksUpTo(_)
BlocksUpTo(n) ==
    IF n = 0 THEN << >>
    ELSE BlocksUpTo(n - 1) \o ExpectedBlock(tunes[n]) \o << << >> >>

----------------------------------------------------------------------------
(* C4, C5, C10: one file per tune *)

\* the tunes visited so far whose file was created
CreatedTunes == { j \in 1..Len(createRes) : createRes[j] }

SameFile(i, j) == fileName(tunes[i]) = fileName(tunes[j])

\* the greatest element of a non-empty set of numbers
Greatest(S) == CHOOSE k \in S : \A j \in S : j <= k

----------------------------------------------------------------------------
(* C8, C9: failures before the write phase *)

\* whether the content of the input file is no array of tune objects
NotAnArrayOfTunes == data.shape \in { "object", "syntax", "wrongtype" }

C9_DirBeforeCreate ==
    /\ createRes # << >> => dirState = "dir"
    /\ pc = "fail_mkdir" => exitCode = 1 /\ createRes = << >>

=============================================================================
